---- MODULE Spec2Model ----
(***************************************************************************)
(* Two parts of the kona derivation core:                                  *)
(*   - the RLP codec of SpanBatchEip1559TransactionData and its            *)
(*     to_enveloped_tx reconstruction (crates/derive, eip1559.rs);         *)
(*   - the driver loop of the trusted-sync example (main.rs, sync).        *)
(* Bytes are naturals 0..255, byte strings are sequences.  A U256 is the   *)
(* big-endian byte string of its value without leading zero bytes (so 0 is *)
(* the empty string); a u128 is a 16-byte big-endian array.                *)
(***************************************************************************)
EXTENDS Integers, Sequences, FiniteSets, TLC

VARIABLES
    \* ---- codec harness
    rec,        \* the record under test
    wire,       \* the buffer handed to decode
    shape,      \* how wire was made: record, exact, truncated, padded, scalar
    decoded,    \* result of decode(wire)
    envelope,   \* result of to_enveloped_tx(rec, ..)
    \* ---- driver loop
    pc,                         \* position in the loop of sync
    cursor,                     \* number of the L2 block the cursor is at
    derived_attributes_count,   \* the loop's counter
    attributes,                 \* the envelope bound by `if let Some(attributes)`
    prepared,                   \* the pipeline's queue of ready envelopes
    origin,                     \* the pipeline's L1 origin, 0 when unset
    produced,                   \* number of envelopes the pipeline has made
    validated,                  \* the validator's calls: envelope and verdict
    fetches,                    \* the loop's l2_block_info_by_number calls
    iter                        \* what the current iteration has done so far

codecVars == <<rec, wire, shape, decoded, envelope>>
loopVars == <<pc, cursor, derived_attributes_count, attributes, prepared, origin, produced, validated, fetches, iter>>
vars == <<codecVars, loopVars>>

\* ------------------------------------------------------------- bounds
MaxDataLen == 1
MaxKeys == 1
MaxPad == 2
MaxBlocks == 2
MaxOrigin == 2
MaxEnvelopes == 3

\* ------------------------------------------------------------- byte strings
Rep(b, n) == [i \in 1..n |-> b]
Take(s, n) == SubSeq(s, 1, n)
Drop(s, n) == SubSeq(s, n + 1, Len(s))

RECURSIVE BeBytes(_)
\* usize::to_be_bytes with the leading zero bytes removed
BeBytes(n) == IF n = 0 THEN <<>> ELSE Append(BeBytes(n \div 256), n % 256)

RECURSIVE BeValue(_)
BeValue(s) == IF s = <<>> THEN 0 ELSE BeValue(Take(s, Len(s) - 1)) * 256 + s[Len(s)]

Ok(v, r) == [ok |-> TRUE, val |-> v, rest |-> r, err |-> "none"]
Err(e) == [ok |-> FALSE, val |-> <<>>, rest |-> <<>>, err |-> e]

\* ------------------------------------------------------------- alloy_rlp
\* Header::encode, the long form: the length of the length, then the length
LongHeader(code, be) == <<code + 55 + Len(be)>> \o be

\* Header::encode
HeaderEncode(list, payload_length) ==
    IF payload_length < 56
    THEN <<(IF list THEN 192 ELSE 128) + payload_length>>
    ELSE LongHeader(IF list THEN 192 ELSE 128, BeBytes(payload_length))

\* Header::decode, the long form: r follows the first byte, which announced
\* len_of_len bytes of length, of value len
LongHeaderDecode(list, r, len_of_len, len) ==
    IF Len(r) < len_of_len THEN Err("InputTooShort")
    ELSE IF r[1] = 0 THEN Err("LeadingZero")
    \* a length of four bytes or more exceeds every buffer here
    ELSE IF len_of_len > 3 THEN Err("InputTooShort")
    ELSE IF len < 56 THEN Err("NonCanonicalSize")
    ELSE IF Len(r) - len_of_len < len THEN Err("InputTooShort")
    ELSE Ok([list |-> list, payload_length |-> len], Drop(r, len_of_len))

\* Header::decode: the header and the buffer advanced past it
HeaderDecode(buf) ==
    IF buf = <<>> THEN Err("InputTooShort")
    ELSE LET b == buf[1]
             r == Drop(buf, 1)
         IN
         IF b < 128 THEN Ok([list |-> FALSE, payload_length |-> 1], buf)
         ELSE IF b <= 183 THEN
             IF b - 128 = 1 /\ r = <<>> THEN Err("InputTooShort")
             ELSE IF b - 128 = 1 /\ r[1] < 128 THEN Err("NonCanonicalSingleByte")
             ELSE IF Len(r) < b - 128 THEN Err("InputTooShort")
             ELSE Ok([list |-> FALSE, payload_length |-> b - 128], r)
         ELSE IF b >= 192 /\ b <= 247 THEN
             IF Len(r) < b - 192 THEN Err("InputTooShort")
             ELSE Ok([list |-> TRUE, payload_length |-> b - 192], r)
         ELSE IF b >= 248
         THEN LongHeaderDecode(TRUE, r, b - 247, BeValue(Take(r, b - 247)))
         ELSE LongHeaderDecode(FALSE, r, b - 183, BeValue(Take(r, b - 183)))

\* Header::decode_bytes after Header::decode: the kind is checked and the
\* payload split off
PayloadOf(h, is_list) ==
    IF ~h.ok THEN h
    ELSE IF h.val.list # is_list
    THEN Err(IF is_list THEN "UnexpectedString" ELSE "UnexpectedList")
    ELSE Ok(Take(h.rest, h.val.payload_length), Drop(h.rest, h.val.payload_length))

\* Header::decode_bytes: the payload of a header of the expected kind
DecodeBytesOf(buf, is_list) == PayloadOf(HeaderDecode(buf), is_list)

\* <[u8] as Encodable>::encode (Bytes, and the fixed byte arrays)
EncodeBytes(s) ==
    IF Len(s) = 1 /\ s[1] < 128 THEN s ELSE HeaderEncode(FALSE, Len(s)) \o s

\* <Bytes as Decodable>::decode
DecodeBytes(buf) == DecodeBytesOf(buf, FALSE)

\* <U256 as Encodable>::encode
EncodeU256(v) == EncodeBytes(v)

\* <U256 as Decodable>::decode, the checks on the payload
CheckedU256(b) ==
    IF ~b.ok THEN b
    ELSE IF b.val # <<>> /\ b.val[1] = 0 THEN Err("LeadingZero")
    ELSE IF Len(b.val) > 32 THEN Err("Overflow")
    ELSE b

\* <U256 as Decodable>::decode
DecodeU256(buf) == CheckedU256(DecodeBytesOf(buf, FALSE))

\* <[u8; N] as Decodable>::decode, the length check
CheckedFixed(b, n) ==
    IF ~b.ok THEN b
    ELSE IF Len(b.val) # n THEN Err("UnexpectedLength")
    ELSE b

\* <[u8; N] as Decodable>::decode (Address: N = 20, B256: N = 32)
DecodeFixed(buf, n) == CheckedFixed(DecodeBytesOf(buf, FALSE), n)

\* ------------------------------------------------------------- access list
\* a list header in front of the payload it measures
WithListHeader(payload) == HeaderEncode(TRUE, Len(payload)) \o payload

RECURSIVE EncodeEach(_)
EncodeEach(keys) ==
    IF keys = <<>> THEN <<>> ELSE EncodeBytes(Head(keys)) \o EncodeEach(Tail(keys))

\* <Vec<B256> as Encodable>::encode
EncodeKeys(keys) == WithListHeader(EncodeEach(keys))

\* <AccessListItem as Encodable>::encode (derived)
EncodeItem(it) == WithListHeader(EncodeBytes(it.address) \o EncodeKeys(it.storage_keys))

RECURSIVE EncodeItems(_)
EncodeItems(al) ==
    IF al = <<>> THEN <<>> ELSE EncodeItem(Head(al)) \o EncodeItems(Tail(al))

\* <AccessList as Encodable>::encode
EncodeAccessList(al) == WithListHeader(EncodeItems(al))

\* Vec::push of a decoded element in front of the elements that follow it
Pushed(v, more) == IF ~more.ok THEN more ELSE Ok(<<v>> \o more.val, <<>>)

\* a decoded list, with the buffer that follows the list
ListThen(r, rest) == IF ~r.ok THEN r ELSE Ok(r.val, rest)

RECURSIVE DecodeKeysLoop(_)
RECURSIVE KeyThenKeys(_)
\* the loop of <Vec<B256> as Decodable>::decode over the list's payload
DecodeKeysLoop(view) ==
    IF view = <<>> THEN Ok(<<>>, <<>>) ELSE KeyThenKeys(DecodeFixed(view, 32))

KeyThenKeys(k) == IF ~k.ok THEN k ELSE Pushed(k.val, DecodeKeysLoop(k.rest))

KeysOf(p) == IF ~p.ok THEN p ELSE ListThen(DecodeKeysLoop(p.val), p.rest)

\* <Vec<B256> as Decodable>::decode
DecodeKeys(buf) == KeysOf(DecodeBytesOf(buf, TRUE))

ItemAfterKeys(h, a, ks) ==
    IF ~ks.ok THEN ks
    ELSE IF Len(h.rest) - Len(ks.rest) # h.val.payload_length
    THEN Err("ListLengthMismatch")
    ELSE Ok([address |-> a.val, storage_keys |-> ks.val], ks.rest)

ItemAfterAddress(h, a) == IF ~a.ok THEN a ELSE ItemAfterKeys(h, a, DecodeKeys(a.rest))

ItemAfterHeader(h) ==
    IF ~h.ok THEN h
    ELSE IF ~h.val.list THEN Err("UnexpectedString")
    ELSE ItemAfterAddress(h, DecodeFixed(h.rest, 20))

\* <AccessListItem as Decodable>::decode (derived)
DecodeItem(buf) == ItemAfterHeader(HeaderDecode(buf))

RECURSIVE DecodeItemsLoop(_)
RECURSIVE ItemThenItems(_)
\* the loop of <Vec<AccessListItem> as Decodable>::decode
DecodeItemsLoop(view) ==
    IF view = <<>> THEN Ok(<<>>, <<>>) ELSE ItemThenItems(DecodeItem(view))

ItemThenItems(it) == IF ~it.ok THEN it ELSE Pushed(it.val, DecodeItemsLoop(it.rest))

ItemsOf(p) == IF ~p.ok THEN p ELSE ListThen(DecodeItemsLoop(p.val), p.rest)

\* <AccessList as Decodable>::decode
DecodeAccessList(buf) == ItemsOf(DecodeBytesOf(buf, TRUE))

\* ------------------------------------------------------------- eip1559.rs
\* the five field encodings, in the order encode writes them
Fields(r) ==
    EncodeU256(r.value) \o EncodeU256(r.max_fee_per_gas)
        \o EncodeU256(r.max_priority_fee_per_gas)
        \o EncodeBytes(r.data) \o EncodeAccessList(r.access_list)

PayloadLengthNoAccessList(r) ==
    Len(EncodeU256(r.value)) + Len(EncodeU256(r.max_fee_per_gas))
        + Len(EncodeU256(r.max_priority_fee_per_gas)) + Len(EncodeBytes(r.data))

\* encode: payload_length
PayloadLength(r) ==
    Len(EncodeU256(r.value)) + Len(EncodeU256(r.max_fee_per_gas))
        + Len(EncodeU256(r.max_priority_fee_per_gas)) + Len(EncodeBytes(r.data))
        + Len(EncodeAccessList(r.access_list))

\* <SpanBatchEip1559TransactionData as Encodable>::encode
encode(r) == HeaderEncode(TRUE, PayloadLength(r)) \o Fields(r)

\* the length check with the buffer required to be empty instead
TrailingBytesRejected(buf_len, buf_len_start, payload_length) == buf_len # 0

\* decode: `buf.len() != buf_len_start - header.payload_length`
LengthMismatch(buf_len, buf_len_start, payload_length) ==
    buf_len # buf_len_start - payload_length

\* decode: the length check and `Ok(Self { .. })`
AfterAccessList(h, value, max_fee_per_gas, max_priority_fee_per_gas, data, access_list) ==
    IF ~access_list.ok THEN access_list
    ELSE IF LengthMismatch(Len(access_list.rest), Len(h.rest), h.val.payload_length)
    THEN Err("Custom: Invalid EIP-1559 transaction RLP")
    ELSE Ok([value |-> value.val,
             max_fee_per_gas |-> max_fee_per_gas.val,
             max_priority_fee_per_gas |-> max_priority_fee_per_gas.val,
             data |-> data.val,
             access_list |-> access_list.val], access_list.rest)

\* decode: `let access_list = AccessList::decode(buf)?`
AfterData(h, value, max_fee_per_gas, max_priority_fee_per_gas, data) ==
    IF ~data.ok THEN data
    ELSE AfterAccessList(h, value, max_fee_per_gas, max_priority_fee_per_gas, data,
                         DecodeAccessList(data.rest))

\* decode: `let data = Bytes::decode(buf)?`
AfterPriorityFee(h, value, max_fee_per_gas, max_priority_fee_per_gas) ==
    IF ~max_priority_fee_per_gas.ok THEN max_priority_fee_per_gas
    ELSE AfterData(h, value, max_fee_per_gas, max_priority_fee_per_gas,
                   DecodeBytes(max_priority_fee_per_gas.rest))

\* decode: `let max_priority_fee_per_gas = U256::decode(buf)?`
AfterFee(h, value, max_fee_per_gas) ==
    IF ~max_fee_per_gas.ok THEN max_fee_per_gas
    ELSE AfterPriorityFee(h, value, max_fee_per_gas, DecodeU256(max_fee_per_gas.rest))

\* decode: `let max_fee_per_gas = U256::decode(buf)?`
AfterValue(h, value) ==
    IF ~value.ok THEN value ELSE AfterFee(h, value, DecodeU256(value.rest))

\* decode after the header: `let value = U256::decode(buf)?` and what follows
DecodeFields(h) == AfterValue(h, DecodeU256(h.rest))

\* the header check of decode, with `!header.list` not tested
ListCheckSkipped(h) == FALSE

\* decode: `if !header.list { return Err(..) }`
NotList(h) == ~h.val.list

\* decode: what follows `let header = Header::decode(buf)?`
AfterHeader(header) ==
    IF ~header.ok THEN header
    ELSE IF NotList(header)
    THEN Err("Custom: Expected list data for EIP-1559 transaction")
    ELSE DecodeFields(header)

\* <SpanBatchEip1559TransactionData as Decodable>::decode
decode(buf) == AfterHeader(HeaderDecode(buf))

\* U256::to_be_bytes::<32>
ToBeBytes32(v) == Rep(0, 32 - Len(v)) \o v

RECURSIVE TrimZeros(_)
\* the numeric value of a big-endian array, as a U256
TrimZeros(s) == IF s # <<>> /\ s[1] = 0 THEN TrimZeros(Tail(s)) ELSE s

\* `.try_into().map_err(..)?` into [u8; 16]: an error when the slice is not
\* 16 bytes long
TryInto16(slice) ==
    IF Len(slice) # 16 THEN Err("InvalidTransactionData") ELSE Ok(slice, <<>>)

\* to_enveloped_tx: `u128::from_be_bytes(x.to_be_bytes::<32>()[16..].try_into()..)`
Narrow(v) == TryInto16(SubSeq(ToBeBytes32(v), 17, 32))

\* to_enveloped_tx: TxEip1559 { .. }, signed and wrapped
Enveloped(r, fee, prio, nonce, gas, to, chain_id, signature) ==
    IF ~fee.ok THEN fee
    ELSE IF ~prio.ok THEN prio
    ELSE Ok([tx |-> [chain_id |-> chain_id,
                     nonce |-> nonce,
                     max_fee_per_gas |-> fee.val,
                     max_priority_fee_per_gas |-> prio.val,
                     gas_limit |-> gas,
                     to |-> IF to = <<>> THEN <<"Create">> ELSE <<"Call", to[1]>>,
                     value |-> r.value,
                     input |-> r.data,
                     access_list |-> r.access_list],
             signature |-> signature], <<>>)

\* SpanBatchEip1559TransactionData::to_enveloped_tx
to_enveloped_tx(r, nonce, gas, to, chain_id, signature) ==
    Enveloped(r, Narrow(r.max_fee_per_gas), Narrow(r.max_priority_fee_per_gas),
              nonce, gas, to, chain_id, signature)

\* ------------------------------------------------------------- codec inputs
Pending == Err("pending")

ValueSamples == {<<>>, <<255>>, Rep(255, 32)}
\* 0xEE, 2^128 - 1, 2^128
FeeSamples == {<<238>>, Rep(255, 16), <<1>> \o Rep(0, 16)}
\* 0xDD, 2^128
PrioritySamples == {<<221>>, <<1>> \o Rep(0, 16)}
DataBytes == {1, 128}
DataSamples ==
    UNION {[1..n -> DataBytes] : n \in 0..MaxDataLen} \cup {<<1, 2, 3>>, Rep(2, 56)}
Item(k) == [address |-> Rep(170, 20), storage_keys |-> [i \in 1..k |-> Rep(i, 32)]]
AccessListSamples ==
    {<<>>} \cup {<<Item(k)>> : k \in 0..MaxKeys} \cup {<<Item(k), Item(0)>> : k \in 0..MaxKeys}

Records ==
    [value : ValueSamples, max_fee_per_gas : FeeSamples,
     max_priority_fee_per_gas : PrioritySamples, data : DataSamples,
     access_list : AccessListSamples]

PadBytes == {0, 128, 192}
Paddings == UNION {[1..n -> PadBytes] : n \in 1..MaxPad}

\* buffers that open with a scalar header: a single byte below 0x80, or a
\* string header declaring n bytes, each followed by some tail
ScalarOpenings(r) ==
    {<<0>>, <<127>>}
        \cup {HeaderEncode(FALSE, n) :
                n \in {0, 1, PayloadLength(r) - 1, PayloadLength(r), PayloadLength(r) + 1}}
ScalarTails(r) == {<<>>, Fields(r), Fields(r) \o <<0>>, encode(r)}

CodecInit ==
    /\ rec \in Records
    /\ wire = <<>>
    /\ shape = "record"
    /\ decoded = Pending
    /\ envelope = Pending
    /\ pc = "off"
    /\ cursor = 0
    /\ derived_attributes_count = 0
    /\ attributes = <<>>
    /\ prepared = <<>>
    /\ origin = 0
    /\ produced = 0
    /\ validated = <<>>
    /\ fetches = <<>>
    /\ iter = <<>>

Feed(buf, how) ==
    /\ shape = "record"
    /\ wire' = buf
    /\ shape' = how
    /\ decoded' = decode(buf)
    /\ UNCHANGED <<rec, envelope, loopVars>>

\* encode, then decode what was written (test encode_eip1559_tx_data_roundtrip)
RoundTrip == Feed(encode(rec), "exact")

\* decode of an encoding with k bytes removed from its end
DecodeTruncated == \E k \in 1..Len(encode(rec)) : Feed(Take(encode(rec), Len(encode(rec)) - k), "truncated")

\* decode of an encoding with bytes appended
DecodePadded == \E p \in Paddings : Feed(encode(rec) \o p, "padded")

\* decode of a buffer whose leading header declares a scalar
DecodeScalar == \E h \in ScalarOpenings(rec), t \in ScalarTails(rec) : Feed(h \o t, "scalar")

\* to_enveloped_tx with the batch's shared columns
Reconstruct ==
    /\ shape = "record"
    /\ \E to \in {<<>>, <<Rep(187, 20)>>} :
         envelope' = to_enveloped_tx(rec, 7, 21000, to, 10, "signature")
    /\ shape' = "enveloped"
    /\ UNCHANGED <<rec, wire, decoded, loopVars>>

CodecNext == RoundTrip \/ DecodeTruncated \/ DecodePadded \/ DecodeScalar \/ Reconstruct

CodecSpec == CodecInit /\ [][CodecNext]_vars

\* ------------------------------------------------------------- codec claims
\* C1: decoding the bytes encode(r) wrote succeeds and returns r in all five
\* fields, with nothing left in the buffer.
RoundTripHolds ==
    shape = "exact" =>
        /\ decoded.ok
        /\ decoded.val.value = rec.value
        /\ decoded.val.max_fee_per_gas = rec.max_fee_per_gas
        /\ decoded.val.max_priority_fee_per_gas = rec.max_priority_fee_per_gas
        /\ decoded.val.data = rec.data
        /\ decoded.val.access_list = rec.access_list
        /\ decoded.rest = <<>>

\* the concrete case of the test: 0xFF, 0xEE, 0xDD, [1, 2, 3], no access list
RoundTripWitness ==
    /\ shape = "exact"
    /\ rec = [value |-> <<255>>, max_fee_per_gas |-> <<238>>,
              max_priority_fee_per_gas |-> <<221>>, data |-> <<1, 2, 3>>,
              access_list |-> <<>>]
    /\ wire = <<203, 129, 255, 129, 238, 129, 221, 131, 1, 2, 3, 192>>
    /\ decoded.ok

\* C2 as stated: a truncated or padded encoding always decodes to an error.
StrictLengthRejection == shape \in {"truncated", "padded"} => ~decoded.ok

\* C2 as amended: a truncated encoding decodes to an error; a padded one
\* decodes to the original record and leaves exactly the appended bytes.
TruncationRejectedPaddingLeft ==
    /\ shape = "truncated" => ~decoded.ok
    /\ shape = "padded" =>
         /\ decoded.ok
         /\ decoded.val = rec
         /\ encode(rec) \o decoded.rest = wire
         /\ decoded.rest # <<>>

PaddedWitness ==
    /\ shape = "padded"
    /\ decoded.ok
    /\ Len(decoded.rest) = MaxPad
    /\ rec.access_list # <<>>

Fits128(v) == Len(v) <= 16

\* C3: to_enveloped_tx succeeds with numerically equal fees when both fit
\* 128 bits, and returns InvalidTransactionData when either does not.
FeeWidthBoundary ==
    shape = "enveloped" =>
        IF Fits128(rec.max_fee_per_gas) /\ Fits128(rec.max_priority_fee_per_gas)
        THEN /\ envelope.ok
             /\ TrimZeros(envelope.val.tx.max_fee_per_gas) = rec.max_fee_per_gas
             /\ TrimZeros(envelope.val.tx.max_priority_fee_per_gas) = rec.max_priority_fee_per_gas
        ELSE /\ ~envelope.ok
             /\ envelope.err = "InvalidTransactionData"

\* C8: a buffer whose leading header declares a scalar decodes to an error.
ScalarHeaderRejected ==
    (shape = "scalar" /\ wire[1] < 192) => ~decoded.ok

\* a string header declaring exactly the five fields that follow it
ScalarWitness ==
    /\ shape = "scalar"
    /\ wire = HeaderEncode(FALSE, PayloadLength(rec)) \o Fields(rec)
    /\ HeaderDecode(wire).ok
    /\ ~HeaderDecode(wire).val.list
    /\ decoded.err = "Custom: Expected list data for EIP-1559 transaction"

\* ------------------------------------------------------------- main.rs, sync
Last(s) == s[Len(s)]

\* the record of an iteration that has just begun
Fresh(c, n, kind, step) ==
    [cursor0 |-> c, count0 |-> n, step |-> "none", polled |-> "none",
     verdict |-> "none", fetched |-> "none", last |-> kind, last_step |-> step]

\* the state when the loop is entered: cursor is the block `start`, the
\* pipeline is new (nothing prepared), the counter is 0
Init ==
    /\ pc = "step"
    /\ cursor \in 0..1
    /\ derived_attributes_count = 0
    /\ attributes = <<>>
    /\ prepared = <<>>
    /\ origin \in 0..1
    /\ produced = 0
    /\ validated = <<>>
    /\ fetches = <<>>
    /\ iter = Fresh(cursor, 0, "first", "none")
    /\ rec = <<>>
    /\ wire = <<>>
    /\ shape = "off"
    /\ decoded = Pending
    /\ envelope = Pending

\* Pipeline::step(cursor) returning Ok: the origin is set and may advance,
\* and an envelope derived on top of the cursor may become ready
PipelineStepOk(c) ==
    /\ \E o \in {IF origin = 0 THEN 1 ELSE origin, origin + 1} :
         /\ o <= MaxOrigin
         /\ origin' = o
    /\ \/ /\ produced < MaxEnvelopes
          /\ prepared' = Append(prepared, [parent |-> c, id |-> produced + 1])
          /\ produced' = produced + 1
       \/ UNCHANGED <<prepared, produced>>

\* Pipeline::step(cursor) returning Err: nothing becomes ready
PipelineStepErr(c) == UNCHANGED <<origin, prepared, produced>>

StepErrReturns ==
    /\ pc = "step"
    /\ PipelineStepErr(cursor)
    /\ iter' = [iter EXCEPT !.step = "err"]
    /\ pc' = "returned"
    /\ UNCHANGED <<cursor, derived_attributes_count, attributes, validated, fetches, codecVars>>

\* `match pipeline.step(cursor).await`, the Ok arm
StepOk ==
    /\ pc = "step"
    /\ PipelineStepOk(cursor)
    /\ iter' = [iter EXCEPT !.step = "ok"]
    /\ pc' = "poll"
    /\ UNCHANGED <<cursor, derived_attributes_count, attributes, validated, fetches, codecVars>>

\* `match pipeline.step(cursor).await`, the Err arm: a warning, nothing else
StepErr ==
    /\ pc = "step"
    /\ PipelineStepErr(cursor)
    /\ iter' = [iter EXCEPT !.step = "err"]
    /\ pc' = "poll"
    /\ UNCHANGED <<cursor, derived_attributes_count, attributes, validated, fetches, codecVars>>

NoAttributesCounts ==
    /\ pc = "poll"
    /\ prepared = <<>>
    /\ derived_attributes_count' = derived_attributes_count + 1
    /\ iter' = Fresh(cursor, derived_attributes_count', "noop", iter.step)
    /\ pc' = "step"
    /\ UNCHANGED <<cursor, attributes, prepared, origin, produced, validated, fetches, codecVars>>

\* `pipeline.next_attributes()` is None: the else arm, then the next iteration
NoAttributes ==
    /\ pc = "poll"
    /\ prepared = <<>>
    /\ iter' = Fresh(cursor, derived_attributes_count, "noop", iter.step)
    /\ pc' = "step"
    /\ UNCHANGED <<cursor, derived_attributes_count, attributes, prepared, origin, produced, validated, fetches, codecVars>>

\* `if let Some(attributes) = pipeline.next_attributes()`: pop_front
TakeAttributes ==
    /\ pc = "poll"
    /\ prepared # <<>>
    /\ attributes' = <<Head(prepared)>>
    /\ prepared' = Tail(prepared)
    /\ iter' = [iter EXCEPT !.polled = "some"]
    /\ pc' = "validate"
    /\ UNCHANGED <<cursor, derived_attributes_count, origin, produced, validated, fetches, codecVars>>

\* `validator.validate(&attributes).await` is true: count the attributes
ValidateOk ==
    /\ pc = "validate"
    /\ validated' = Append(validated, [env |-> attributes[1], verdict |-> TRUE])
    /\ derived_attributes_count' = derived_attributes_count + 1
    /\ iter' = [iter EXCEPT !.verdict = "true"]
    /\ pc' = "fetch"
    /\ UNCHANGED <<cursor, attributes, prepared, origin, produced, fetches, codecVars>>

ValidateFailGoesOn ==
    /\ pc = "validate"
    /\ validated' = Append(validated, [env |-> attributes[1], verdict |-> FALSE])
    /\ iter' = [iter EXCEPT !.verdict = "false"]
    /\ pc' = "fetch"
    /\ UNCHANGED <<cursor, derived_attributes_count, attributes, prepared, origin, produced, fetches, codecVars>>

\* `validator.validate(&attributes).await` is false: `return Ok(())`
ValidateFail ==
    /\ pc = "validate"
    /\ validated' = Append(validated, [env |-> attributes[1], verdict |-> FALSE])
    /\ iter' = [iter EXCEPT !.verdict = "false"]
    /\ pc' = "returned"
    /\ UNCHANGED <<cursor, derived_attributes_count, attributes, prepared, origin, produced, fetches, codecVars>>

FetchOkSkips ==
    /\ pc = "fetch"
    /\ cursor + 2 <= MaxBlocks
    /\ fetches' = Append(fetches, [number |-> cursor + 2, ok |-> TRUE])
    /\ cursor' = cursor + 2
    /\ iter' = [iter EXCEPT !.fetched = "ok"]
    /\ pc' = "report"
    /\ UNCHANGED <<derived_attributes_count, attributes, prepared, origin, produced, validated, codecVars>>

\* `l2_provider.l2_block_info_by_number(cursor.block_info.number + 1)` is
\* Ok(bi): `cursor = bi`.  The provider has blocks up to MaxBlocks.
FetchOk ==
    /\ pc = "fetch"
    /\ cursor + 1 <= MaxBlocks
    /\ fetches' = Append(fetches, [number |-> cursor + 1, ok |-> TRUE])
    /\ cursor' = cursor + 1
    /\ iter' = [iter EXCEPT !.fetched = "ok"]
    /\ pc' = "report"
    /\ UNCHANGED <<derived_attributes_count, attributes, prepared, origin, produced, validated, codecVars>>

FetchErrRevalidates ==
    /\ pc = "fetch"
    /\ fetches' = Append(fetches, [number |-> cursor + 1, ok |-> FALSE])
    /\ iter' = [iter EXCEPT !.fetched = "err"]
    /\ pc' = IF Len(fetches) = 0 THEN "validate" ELSE "report"
    /\ UNCHANGED <<cursor, derived_attributes_count, attributes, prepared, origin, produced, validated, codecVars>>

FetchErrAdvances ==
    /\ pc = "fetch"
    /\ fetches' = Append(fetches, [number |-> cursor + 1, ok |-> FALSE])
    /\ cursor' = IF cursor < MaxBlocks THEN cursor + 1 ELSE cursor
    /\ iter' = [iter EXCEPT !.fetched = "err"]
    /\ pc' = "report"
    /\ UNCHANGED <<derived_attributes_count, attributes, prepared, origin, produced, validated, codecVars>>

\* the fetch is Err(e): an error is logged and the cursor is kept
FetchErr ==
    /\ pc = "fetch"
    /\ fetches' = Append(fetches, [number |-> cursor + 1, ok |-> FALSE])
    /\ iter' = [iter EXCEPT !.fetched = "err"]
    /\ pc' = "report"
    /\ UNCHANGED <<cursor, derived_attributes_count, attributes, prepared, origin, produced, validated, codecVars>>

\* the println! with `pipeline.origin().unwrap()`, which panics on None;
\* then the next iteration
Report ==
    /\ pc = "report"
    /\ IF origin = 0
       THEN /\ pc' = "panicked"
            /\ UNCHANGED <<iter, attributes>>
       ELSE /\ pc' = "step"
            /\ attributes' = <<>>
            /\ iter' = Fresh(cursor, derived_attributes_count, "reported", iter.step)
    /\ UNCHANGED <<cursor, derived_attributes_count, prepared, origin, produced, validated, fetches, codecVars>>

Next ==
    \/ StepOk
    \/ StepErr
    \/ NoAttributes
    \/ TakeAttributes
    \/ ValidateOk
    \/ ValidateFail
    \/ FetchOk
    \/ FetchErr
    \/ Report

Spec == Init /\ [][Next]_vars

\* ------------------------------------------------------------- loop claims
\* C4: a failed fetch of block cursor + 1 leaves the cursor as it was and the
\* loop running (the report, then the next iteration); the next successful
\* fetch is of that same block, for an envelope derived on the kept cursor,
\* and moves the cursor to it.
FailedFetchKeepsCursor ==
    [][/\ (pc = "fetch" /\ ~Last(fetches').ok) =>
            (cursor' = cursor /\ pc' = "report")
       /\ (pc = "report" /\ iter.fetched = "err") =>
            (pc' = "step" /\ cursor' = cursor)
       /\ (pc = "fetch" /\ Last(fetches').ok /\ fetches # <<>> /\ ~Last(fetches).ok) =>
            /\ Last(fetches').number = Last(fetches).number
            /\ attributes[1].parent = Last(fetches).number - 1
            /\ cursor' = Last(fetches).number]_vars

RefetchWitness ==
    /\ Len(fetches) >= 2
    /\ ~fetches[Len(fetches) - 1].ok
    /\ Last(fetches).ok
    /\ cursor = fetches[Len(fetches) - 1].number
    /\ pc = "step"

\* C5: the cursor changes only in an iteration in which next_attributes
\* returned an envelope and the validator accepted it; that envelope's parent
\* is the old cursor and the new cursor is the parent's successor.
CursorMovesOnlyAfterValidation ==
    [][cursor' # cursor =>
        /\ iter.polled = "some"
        /\ iter.verdict = "true"
        /\ Last(validated).verdict
        /\ Last(validated).env = attributes[1]
        /\ attributes[1].parent = cursor
        /\ iter.cursor0 = cursor
        /\ cursor' = attributes[1].parent + 1]_vars

CursorMovedWitness ==
    /\ pc = "report"
    /\ iter.fetched = "ok"
    /\ Len(validated) >= 2
    /\ cursor = attributes[1].parent + 1
    /\ cursor = iter.cursor0 + 1

\* C6: once the validator has returned false the loop has returned, in the
\* iteration of that verdict: the cursor and the counter are those the
\* iteration began with, no fetch was issued and nothing more can happen.
ValidationFailureIsFatal ==
    (validated # <<>> /\ ~Last(validated).verdict) =>
        /\ pc = "returned"
        /\ cursor = iter.cursor0
        /\ derived_attributes_count = iter.count0
        /\ iter.fetched = "none"
        /\ ~ENABLED Next

RejectedWitness ==
    /\ pc = "returned"
    /\ Len(validated) >= 2
    /\ ~Last(validated).verdict
    /\ derived_attributes_count = Len(validated) - 1
    /\ fetches # <<>>

\* C7: every envelope taken from the pipeline has been handed to the
\* validator exactly once (or is being handed to it now), and no envelope
\* still in the pipeline has.
EachEnvelopeValidatedOnce ==
    LET taken == produced - Len(prepared)
        Times(id) == Cardinality({i \in 1..Len(validated) : validated[i].env.id = id})
        InHand(id) == pc = "validate" /\ attributes[1].id = id
    IN  \A id \in 1..produced :
            Times(id) = IF id <= taken /\ ~InHand(id) THEN 1 ELSE 0

ValidatedOnceWitness ==
    /\ pc = "step"
    /\ Len(validated) = 2
    /\ produced = 2
    /\ fetches # <<>>
    /\ ~Last(fetches).ok
    /\ iter.last_step = "err"

\* C9: the loop ends only by the validator returning false; a step (failed
\* or not) is followed by next_attributes, an absent envelope and the report
\* by the next iteration, a fetch (failed or not) by the report.
LoopEndsOnlyOnValidationFailure ==
    [][/\ pc' \in {"returned", "panicked"} =>
            (pc = "validate" /\ Len(validated') = Len(validated) + 1 /\ ~Last(validated').verdict)
       /\ pc = "step" => pc' = "poll"
       /\ (pc = "poll" /\ prepared = <<>>) => pc' = "step"
       /\ pc = "fetch" => pc' = "report"
       /\ pc = "report" => pc' = "step"]_vars

StillRunningWitness ==
    /\ pc = "poll"
    /\ iter.step = "err"
    /\ iter.last = "reported"
    /\ fetches # <<>>
    /\ ~Last(fetches).ok

\* C10: an iteration in which next_attributes returns nothing ends with the
\* cursor and the counter it began with, without a validator call or a
\* fetch, whatever the step returned.
EmptyIterationChangesNothing ==
    [][(pc = "poll" /\ prepared = <<>>) =>
        /\ pc' = "step"
        /\ cursor' = cursor
        /\ cursor = iter.cursor0
        /\ derived_attributes_count' = derived_attributes_count
        /\ derived_attributes_count = iter.count0
        /\ validated' = validated
        /\ fetches' = fetches
        /\ iter.verdict = "none"
        /\ iter.fetched = "none"]_vars

EmptyIterationWitness ==
    /\ pc = "step"
    /\ iter.last = "noop"
    /\ iter.last_step = "err"
    /\ derived_attributes_count > 0
    /\ prepared = <<>>

====
